---- MODULE Spec2Model ----
(***************************************************************************)
(* A model of the session/audio orchestration engine of JarvisService      *)
(* (src/services/jarvisService.ts, first definition, lines 78-484) and of  *)
(* the way App.tsx drives it.                                              *)
(*                                                                         *)
(* JavaScript is single threaded: every action below is one task of the    *)
(* event loop, i.e. the synchronous run of a handler from its entry (or    *)
(* from the await it was suspended at) to its next await or its return.    *)
(* An async function that is suspended at an await is a token in one of    *)
(* the bags conn (connect()), disc (disconnect()) or cam                   *)
(* (handleFlashlight()); any other task may run in between.                *)
(*                                                                         *)
(* Spec is the connection life cycle with the recognition engine,          *)
(* SpecCapture adds the capture pipeline and the VAD, SpecPlay is the      *)
(* playback scheduler within one open session.                             *)
(***************************************************************************)
EXTENDS Naturals, Integers, Sequences, FiniteSets, TLC

\* ---------------------------------------------------------------- bounds
\* connect() calls in flight plus remote sessions alive
MaxCalls == 2
\* disconnect() calls suspended at an await
MaxDisc == 1
\* pending restart timers of recognition.onend
MaxTimers == 1
\* audio-bearing messages received in one session
MaxSegs == 3
\* the playback clock, in units of 100 ms
MaxClock == 4
\* the wall clock, in units of 100 ms
MaxNow == 10

\* ---------------------------------------------------------------- values
ConnectionState == {"DISCONNECTED", "CONNECTING", "CONNECTED", "ERROR"}

\* where a connect() call can be suspended
ConnPc == {"grace", "resume", "gum1", "gum2"}
\* where a disconnect() call can be suspended
DiscPc == {"awaitInput", "awaitOutput"}
\* a remote session: connecting, open, or failed (onerror delivered, onclose to come)
SessPc == {"pending", "open", "failed"}
\* the durations of the inbound segments, in units of 100 ms
Durations == {3, 5, 7}

VARIABLES
    svc,           \* the fields of the JarvisService object
    apiKey,        \* process.env.API_KEY is set
    conn,          \* connect() calls suspended at each await
    disc,          \* disconnect() calls suspended at each await
    sess,          \* remote sessions whose callbacks can still fire
    cam,           \* handleFlashlight(true) calls awaiting the camera
    restartTimers, \* pending setTimeout(..., 1000) of recognition.onend
    silenceTimer,  \* the number of pending debounce timeouts of the VAD
    processors,    \* contexts a live ScriptProcessor is attached to
    leaked,        \* live resources no field of the service references any more
    torn,          \* a disconnect() has completed and connect() was not called since
    out,           \* the events the last task emitted
    nextStartTime, \* the playback cursor
    sources,       \* the scheduled segments that have not ended
    clock,         \* outputAudioContext.currentTime
    suspended,     \* outputAudioContext.state = 'suspended'
    waiting,       \* handleMessage calls suspended at resume(), oldest first
    arrivals,      \* audio-bearing messages received
    firstAfter,    \* no audio-bearing message has arrived since the last interruption
    played,        \* the segments scheduled since the last interruption
    wall,          \* the wall clock, in units of 100 ms
    deadline,      \* when the pending debounce timeout expires (0: none pending)
    loudAt,        \* the times of the above-threshold frames processed
    quietSeen,     \* a silence frame was processed since the last above-threshold one
    vadLog,        \* the speaking-state changes emitted, with their times
    calls,         \* the function calls of the last tool message, as listed
    responses,     \* the tool responses sent over the session for them, as sent
    updates,       \* the system-status updates emitted for them, as emitted
    heard          \* the transcript of the last recognition result observed

lifeVars == <<svc, apiKey, conn, disc, sess, cam, restartTimers, silenceTimer,
              processors, leaked, torn>>

playVars == <<nextStartTime, sources, clock, suspended, waiting, arrivals,
              firstAfter, played>>

vadVars == <<wall, deadline, loudAt, quietSeen, vadLog>>

toolVars == <<calls, responses, updates>>

vars == <<lifeVars, out, playVars, vadVars, toolVars, heard>>

\* ------------------------------------------------------- bag helpers
Sum(f, S) == LET RECURSIVE Go(_)
                 Go(T) == IF T = {} THEN 0
                          ELSE LET x == CHOOSE y \in T : TRUE IN f[x] + Go(T \ {x})
             IN Go(S)

Inc(f, k) == [f EXCEPT ![k] = @ + 1]
Dec(f, k) == [f EXCEPT ![k] = @ - 1]

\* connect() calls in flight plus sessions alive
Calls == Sum(conn, ConnPc) + Sum(sess, SessPc)
Discs == Sum(disc, DiscPc)

\* ------------------------------------------------------- wake word logic
\* the field is assigned and no state-change event is published
updateStateSilent(s, state) == [s EXCEPT !.connectionState = state]

\* updateState(state): this.connectionState = state; this.onStateChange(state).
\* shown: the state the presentation layer received last (App.tsx line 39:
\* onStateChange is bound to the setter of the App's connectionState)
updateState(s, state) == [s EXCEPT !.connectionState = state, !.shown = state]

\* start() on a running engine aborts it
recognitionStartAborts(r) == IF r = "off" THEN "on" ELSE IF r = "on" THEN "stopping" ELSE r

\* recognition.start(): starts an idle engine; on a started (or still stopping)
\* engine it throws InvalidStateError, which every caller swallows
recognitionStart(r) == IF r = "off" THEN "on" ELSE r

\* recognition.stop(): a running engine stops asynchronously (onend follows)
recognitionStop(r) == IF r = "on" THEN "stopping" ELSE r

startWakeWordDetection(s) ==
    IF s.connectionState \in {"CONNECTED", "CONNECTING"} THEN s
    ELSE [s EXCEPT !.isWakeWordActive = TRUE,
                   !.recognition = recognitionStart(@)]

stopWakeWordDetection(s) ==
    [s EXCEPT !.isWakeWordActive = FALSE,
              !.recognition = recognitionStop(@)]

\* ------------------------------------------------------- session callbacks
\* the listener is restarted before the state is updated
handleCloseStartFirst(s) == updateState(startWakeWordDetection(s), "DISCONNECTED")

handleClose(s) == startWakeWordDetection(updateState(s, "DISCONNECTED"))

handleError(s) == startWakeWordDetection(updateState(s, "ERROR"))

\* ------------------------------------------------------- disconnect()
\* lines 457-469: stop the tracks of both streams and drop the references
stopTracks(s) == [s EXCEPT !.stream = "null", !.videoStream = "null"]

\* lines 481-482
disconnectFinish(s) == startWakeWordDetection(updateState(s, "DISCONNECTED"))

\* lines 476-482, entered with the input context dealt with.  close() is
\* called on an open context and awaited.  A context whose close() is still
\* pending reports state 'closed' at once in Chromium (the branch is skipped)
\* and 'running' per the Web Audio specification, where a second close()
\* rejects with InvalidStateError: rej chooses between the two.
disconnectOutput(s, rej) ==
    IF s.outputAudioContext = "open"
    THEN [svc |-> [s EXCEPT !.outputAudioContext = "closing"], pc |-> "awaitOutput"]
    ELSE IF s.outputAudioContext = "closing" /\ rej
    THEN [svc |-> s, pc |-> "thrown"]
    ELSE [svc |-> disconnectFinish(s), pc |-> "done"]

\* lines 472-475, then the rest
disconnectInput(s, rej) ==
    IF s.inputAudioContext = "open"
    THEN [svc |-> [s EXCEPT !.inputAudioContext = "closing"], pc |-> "awaitInput"]
    ELSE IF s.inputAudioContext = "closing" /\ rej
    THEN [svc |-> s, pc |-> "thrown"]
    ELSE disconnectOutput(s, rej)

\* disconnect() from its entry to its first await (or its return)
disconnectEntry(s, rej) == disconnectInput(stopTracks(stopWakeWordDetection(s)), rej)

\* what a step of disconnect() that ended at pc reports: the call completed,
\* or it raised the error of a rejected close()
DiscEvents(pc) ==
    IF pc = "done" THEN {"disconnected"}
    ELSE IF pc = "thrown" THEN {"threw"} ELSE {}

\* the disconnect() bag after a step of disconnect() that ended at pc
DiscAfter(d, pc) == IF pc \in DiscPc THEN Inc(d, pc) ELSE d

\* resources that stay live when a field is overwritten or nulled
LeakCtx(l, old) == IF old = "open" THEN l \cup {"ctx"} ELSE l
LeakMic(l, old) == IF old = "live" THEN l \cup {"mic"} ELSE l
LeakCam(l, old) == IF old = "live" THEN l \cup {"cam"} ELSE l

\* the ScriptProcessor of the input context follows its context: it lives on
\* with a context that is dropped open and dies with one that is closed
DropInput(p, old) ==
    IF "field" \in p
    THEN (p \ {"field"}) \cup (IF old = "open" THEN {"leakedCtx"} ELSE {})
    ELSE p

\* ------------------------------------------------------- initial state
\* The state once App's effect has run (App.tsx lines 35-48): the service is
\* constructed, initWakeWordDetection() has created the engine and
\* startWakeWordDetection() has started it.
InitService(engine) ==
    /\ svc = [connectionState |-> "DISCONNECTED",
              isWakeWordActive |-> TRUE,
              recognition |-> engine,
              inputAudioContext |-> "null",
              outputAudioContext |-> "null",
              stream |-> "null",
              videoStream |-> "null",
              isSpeaking |-> FALSE,
              shown |-> "DISCONNECTED"]
    /\ conn = [p \in ConnPc |-> 0]
    /\ disc = [p \in DiscPc |-> 0]
    /\ sess = [p \in SessPc |-> 0]
    /\ cam = 0
    /\ restartTimers = 0
    /\ silenceTimer = 0
    /\ processors = {}
    /\ leaked = {}
    /\ torn = FALSE
    /\ out = {}
    /\ nextStartTime = 0
    /\ sources = {}
    /\ clock = 0
    /\ suspended = FALSE
    /\ waiting = <<>>
    /\ arrivals = 0
    /\ firstAfter = FALSE
    /\ played = <<>>
    /\ wall = 0
    /\ deadline = 0
    /\ loudAt = {}
    /\ quietSeen = FALSE
    /\ vadLog = <<>>
    /\ calls = <<>>
    /\ responses = <<>>
    /\ updates = <<>>
    /\ heard = <<>>

\* the engine is running; the API key may be missing from the environment
Init ==
    /\ InitService("on")
    /\ apiKey \in BOOLEAN

\* ------------------------------------------------------- connect()
\* the listener is stopped and the grace period entered before the key is
\* looked at
connectEntryStopFirst(wake) ==
    /\ Calls < MaxCalls
    /\ svc' = stopWakeWordDetection(svc)
    /\ conn' = Inc(conn, "grace")
    /\ torn' = FALSE
    /\ out' = IF wake THEN {"wakeConnect"} ELSE {}
    /\ UNCHANGED <<apiKey, disc, sess, cam, restartTimers, silenceTimer,
                   processors, leaked>>

\* connect() from its entry to its first await (lines 177-190); "keyLog":
\* the log of line 179
connectEntry(wake) ==
    /\ IF ~apiKey
       THEN /\ svc' = updateState(svc, "ERROR")
            /\ conn' = conn
       ELSE /\ Calls < MaxCalls
            /\ svc' = stopWakeWordDetection(svc)
            /\ conn' = Inc(conn, "grace")
    /\ torn' = FALSE
    /\ out' = (IF wake THEN {"wakeConnect"} ELSE {})
                  \cup (IF ~apiKey THEN {"keyLog"} ELSE {})
    /\ UNCHANGED <<apiKey, disc, sess, cam, restartTimers, silenceTimer,
                   processors, leaked>>

\* handleToggleConnection (App.tsx lines 59-66), the branch that connects
ToggleConnect ==
    /\ svc.connectionState \notin {"CONNECTED", "CONNECTING"}
    /\ connectEntry(FALSE)
    /\ UNCHANGED <<playVars, vadVars, toolVars, heard>>

\* the catch block of connect() (lines 262-267): ERROR, the log of line 265
\* ("failureLog"; after a microphone failure the log of line 226, "micError",
\* came first), then disconnect() which runs up to its first await
connectCatch(pc, rej) ==
    LET r == disconnectEntry(updateState(svc, "ERROR"), rej) IN
    /\ Discs < MaxDisc
    /\ svc' = r.svc
    /\ conn' = Dec(conn, pc)
    /\ disc' = DiscAfter(disc, r.pc)
    /\ torn' = (torn \/ r.pc = "done")
    /\ out' = DiscEvents(r.pc) \cup {"failureLog"}
                  \cup (IF pc \in {"gum1", "gum2"} THEN {"micError"} ELSE {})
    /\ UNCHANGED <<apiKey, sess, cam, restartTimers, silenceTimer, processors, leaked>>

\* the grace period is over (lines 192-205): CONNECTING, two new contexts
\* (the clock of the new output context starts at 0), the cursor reset
ConnectGraceEnd ==
    /\ conn["grace"] > 0
    /\ svc' = [updateState(svc, "CONNECTING") EXCEPT
                  !.inputAudioContext = "open", !.outputAudioContext = "open"]
    /\ leaked' = LeakCtx(LeakCtx(leaked, svc.inputAudioContext), svc.outputAudioContext)
    /\ processors' = DropInput(processors, svc.inputAudioContext)
    /\ \E susp \in BOOLEAN :
          conn' = Inc(Dec(conn, "grace"), IF susp THEN "resume" ELSE "gum1")
    /\ out' = {}
    /\ UNCHANGED <<apiKey, disc, sess, cam, restartTimers, silenceTimer, torn>>
    /\ nextStartTime' = 0
    /\ clock' = 0
    /\ UNCHANGED <<sources, suspended, waiting, arrivals, firstAfter, played>>
    /\ UNCHANGED <<vadVars, toolVars, heard>>

\* outputAudioContext.resume() resolves or rejects (line 204)
resumeSettled(ok, rej) ==
    IF ok
    THEN /\ conn' = Inc(Dec(conn, "resume"), "gum1")
         /\ out' = {}
         /\ UNCHANGED <<svc, apiKey, disc, sess, cam, restartTimers,
                        silenceTimer, processors, leaked, torn>>
    ELSE connectCatch("resume", rej)

\* outputAudioContext.resume() settles
ConnectResumed ==
    /\ conn["resume"] > 0
    /\ \E ok \in BOOLEAN, rej \in BOOLEAN : resumeSettled(ok, rej)
    /\ UNCHANGED <<playVars, vadVars, toolVars, heard>>

\* outputAudioContext.resume() resolves
ResumeResolved ==
    /\ conn["resume"] > 0
    /\ resumeSettled(TRUE, FALSE)
    /\ UNCHANGED <<playVars, vadVars, toolVars, heard>>

\* a getUserMedia request resolved (lines 211, 222, 224, 231-260): the stream
\* is stored, the log of line 224 is written ("micOnline") and the remote
\* session is requested
micAcquired(pc) ==
    /\ svc' = [svc EXCEPT !.stream = "live"]
    /\ leaked' = LeakMic(leaked, svc.stream)
    /\ conn' = Dec(conn, pc)
    /\ sess' = Inc(sess, "pending")
    /\ out' = {"micOnline"}
    /\ UNCHANGED <<apiKey, disc, cam, restartTimers, silenceTimer, processors, torn>>

\* a rejection of the first request is handled by the outer catch blocks
gum1SettledFatal(ok) ==
    IF ok THEN micAcquired("gum1") ELSE connectCatch("gum1", FALSE)

\* the first getUserMedia request resolves or rejects (lines 209-223); a
\* rejection is reported by console.warn ("warn") and the bare request made
gum1Settled(ok) ==
    IF ok
    THEN micAcquired("gum1")
    ELSE /\ conn' = Inc(Dec(conn, "gum1"), "gum2")
         /\ out' = {"warn"}
         /\ UNCHANGED <<svc, apiKey, disc, sess, cam, restartTimers,
                        silenceTimer, processors, leaked, torn>>

\* the first getUserMedia request settles
ConnectGum1 ==
    /\ conn["gum1"] > 0
    /\ \E ok \in BOOLEAN : gum1Settled(ok)
    /\ UNCHANGED <<playVars, vadVars, toolVars, heard>>

\* the first getUserMedia request resolves: the microphone is granted
Gum1Granted ==
    /\ conn["gum1"] > 0
    /\ gum1Settled(TRUE)
    /\ UNCHANGED <<playVars, vadVars, toolVars, heard>>

\* the fallback getUserMedia request resolves or rejects (lines 222-228)
gum2Settled(ok, rej) ==
    IF ok THEN micAcquired("gum2") ELSE connectCatch("gum2", rej)

\* the fallback getUserMedia request settles
ConnectGum2 ==
    /\ conn["gum2"] > 0
    /\ \E ok \in BOOLEAN, rej \in BOOLEAN : gum2Settled(ok, rej)
    /\ UNCHANGED <<playVars, vadVars, toolVars, heard>>

\* the microphone is denied or busy: the first request is rejected
Gum1Denied ==
    /\ conn["gum1"] > 0
    /\ gum1Settled(FALSE)
    /\ UNCHANGED <<playVars, vadVars, toolVars, heard>>

\* the microphone is denied or busy: the fallback request is rejected too
Gum2Denied ==
    /\ conn["gum2"] > 0
    /\ \E rej \in BOOLEAN : gum2Settled(FALSE, rej)
    /\ UNCHANGED <<playVars, vadVars, toolVars, heard>>

\* ------------------------------------------------------- disconnect()
\* disconnect() is called by handleToggleConnection (App.tsx line 62) or by
\* the effect cleanup (App.tsx line 54).  "twice": the call completed and the
\* task before it was the completion of another disconnect().
Disconnect ==
    /\ Discs < MaxDisc
    /\ \E rej \in BOOLEAN :
          LET r == disconnectEntry(svc, rej) IN
          /\ svc' = r.svc
          /\ disc' = DiscAfter(disc, r.pc)
          /\ torn' = (torn \/ r.pc = "done")
          /\ out' = DiscEvents(r.pc) \cup
                    (IF r.pc = "done" /\ "disconnected" \in out THEN {"twice"} ELSE {})
    /\ UNCHANGED <<apiKey, conn, sess, cam, restartTimers, silenceTimer,
                   processors, leaked>>
    /\ UNCHANGED <<playVars, vadVars, toolVars, heard>>

\* inputAudioContext.close() resolved (lines 473-482)
DisconnectInputClosed ==
    /\ disc["awaitInput"] > 0
    /\ \E rej \in BOOLEAN :
          LET r == disconnectOutput([svc EXCEPT !.inputAudioContext = "null"], rej) IN
          /\ svc' = r.svc
          /\ disc' = DiscAfter(Dec(disc, "awaitInput"), r.pc)
          /\ torn' = (torn \/ r.pc = "done")
          /\ out' = DiscEvents(r.pc)
    /\ leaked' = LeakCtx(leaked, svc.inputAudioContext)
    /\ processors' = DropInput(processors, svc.inputAudioContext)
    /\ UNCHANGED <<apiKey, conn, sess, cam, restartTimers, silenceTimer>>
    /\ UNCHANGED <<playVars, vadVars, toolVars, heard>>

\* outputAudioContext.close() resolved (lines 477-482)
DisconnectOutputClosed ==
    /\ disc["awaitOutput"] > 0
    /\ svc' = disconnectFinish([svc EXCEPT !.outputAudioContext = "null"])
    /\ disc' = Dec(disc, "awaitOutput")
    /\ leaked' = LeakCtx(leaked, svc.outputAudioContext)
    /\ torn' = TRUE
    /\ out' = DiscEvents("done")
    /\ UNCHANGED <<apiKey, conn, sess, cam, restartTimers, silenceTimer, processors>>
    /\ UNCHANGED <<playVars, vadVars, toolVars, heard>>

\* ------------------------------------------------------- remote session
\* startAudioInputStream (lines 276-329): a ScriptProcessor is attached to the
\* input context unless the context or the stream is missing
startAudioInputStream(p, s) ==
    IF s.inputAudioContext = "open" /\ s.stream = "live" THEN p \cup {"field"} ELSE p

\* handleOpen (lines 270-274)
handleOpen(s) == updateState(s, "CONNECTED")

\* callbacks.onopen of a session that was connecting
SessionOpen ==
    /\ sess["pending"] > 0
    /\ sess' = Inc(Dec(sess, "pending"), "open")
    /\ svc' = handleOpen(svc)
    /\ processors' = startAudioInputStream(processors, svc)
    /\ out' = {}
    /\ UNCHANGED <<apiKey, conn, disc, cam, restartTimers, silenceTimer, leaked, torn>>
    /\ UNCHANGED <<playVars, vadVars, toolVars, heard>>

\* the promise returned by ai.live.connect (line 237) rejects and no callback
\* is invoked: the promise is stored, not awaited, so the catch block of
\* lines 261-266 does not run and no field of the service changes
SessionRejected ==
    /\ sess["pending"] > 0
    /\ sess' = Dec(sess, "pending")
    /\ out' = {}
    /\ UNCHANGED <<svc, apiKey, conn, disc, cam, restartTimers, silenceTimer,
                   processors, leaked, torn>>
    /\ UNCHANGED <<playVars, vadVars, toolVars, heard>>

\* callbacks.onerror: the socket failed; its close event follows
SessionError ==
    /\ \E p \in {"pending", "open"} :
          /\ sess[p] > 0
          /\ sess' = Inc(Dec(sess, p), "failed")
    /\ svc' = handleError(svc)
    /\ out' = {}
    /\ UNCHANGED <<apiKey, conn, disc, cam, restartTimers, silenceTimer,
                   processors, leaked, torn>>
    /\ UNCHANGED <<playVars, vadVars, toolVars, heard>>

\* callbacks.onclose: the session is gone
SessionClose ==
    /\ \E p \in SessPc :
          /\ sess[p] > 0
          /\ sess' = Dec(sess, p)
    /\ svc' = handleClose(svc)
    /\ out' = {}
    /\ UNCHANGED <<apiKey, conn, disc, cam, restartTimers, silenceTimer,
                   processors, leaked, torn>>
    /\ UNCHANGED <<playVars, vadVars, toolVars, heard>>

\* ------------------------------------------------------- flashlight tool
\* callbacks.onmessage with a controlFlashlight call (lines 375-378) and
\* handleFlashlight up to its first await (lines 419-428)
ToolFlashlight ==
    /\ sess["open"] > 0
    /\ \E turnOn \in BOOLEAN :
          IF turnOn
          THEN /\ cam < MaxCalls
               /\ cam' = cam + 1
               /\ svc' = svc
          ELSE /\ cam' = cam
               /\ svc' = [svc EXCEPT !.videoStream = "null"]
    /\ out' = {"tool"}
    /\ UNCHANGED <<apiKey, conn, disc, sess, restartTimers, silenceTimer,
                   processors, leaked, torn>>
    /\ UNCHANGED <<playVars, vadVars, toolVars, heard>>

\* the camera request of handleFlashlight settles (lines 428-434), with the
\* log of line 431 ("flashEngaged") or of line 433 ("flashUnavailable")
CameraSettled ==
    /\ cam > 0
    /\ cam' = cam - 1
    /\ \E ok \in BOOLEAN :
          IF ok
          THEN /\ svc' = [svc EXCEPT !.videoStream = "live"]
               /\ leaked' = LeakCam(leaked, svc.videoStream)
               /\ out' = {"flashEngaged"}
          ELSE /\ UNCHANGED <<svc, leaked>>
               /\ out' = {"flashUnavailable"}
    /\ UNCHANGED <<apiKey, conn, disc, sess, restartTimers, silenceTimer,
                   processors, torn>>
    /\ UNCHANGED <<playVars, vadVars, toolVars, heard>>

\* ------------------------------------------------------- recognition engine
\* recognition.onresult (lines 123-137).  A transcript is a sequence of
\* characters; the engine still delivers results while it is stopping.
UpperCase ==
    <<"A", "B", "C", "D", "E", "F", "G", "H", "I", "J", "K", "L", "M",
      "N", "O", "P", "Q", "R", "S", "T", "U", "V", "W", "X", "Y", "Z">>
LowerCase ==
    <<"a", "b", "c", "d", "e", "f", "g", "h", "i", "j", "k", "l", "m",
      "n", "o", "p", "q", "r", "s", "t", "u", "v", "w", "x", "y", "z">>

LowerOf ==
    [c \in {UpperCase[k] : k \in DOMAIN UpperCase} |->
        LowerCase[CHOOSE k \in DOMAIN UpperCase : UpperCase[k] = c]]

\* String.prototype.toLowerCase
toLowerCase(s) ==
    [i \in DOMAIN s |-> IF s[i] \in DOMAIN LowerOf THEN LowerOf[s[i]] ELSE s[i]]

\* String.prototype.trim
RECURSIVE trimStart(_)
trimStart(s) == IF s # <<>> /\ Head(s) = " " THEN trimStart(Tail(s)) ELSE s

RECURSIVE trimEnd(_)
trimEnd(s) ==
    IF s # <<>> /\ s[Len(s)] = " " THEN trimEnd(SubSeq(s, 1, Len(s) - 1)) ELSE s

trim(s) == trimEnd(trimStart(s))

\* String.prototype.includes
includes(s, p) ==
    \E i \in 1..(Len(s) - Len(p) + 1) : SubSeq(s, i, i + Len(p) - 1) = p

\* the phrases tested at lines 127-131
WakePhrases ==
    { <<"h", "e", "l", "l", "o", " ", "j", "a", "r", "v", "i", "s">>,
      <<"j", "a", "r", "v", "i", "s">>,
      <<"w", "a", "k", "e", " ", "u", "p">>,
      <<"s", "y", "s", "t", "e", "m">>,
      <<"a", "c", "t", "i", "v", "a", "t", "e">> }

\* the transcript is tested as the engine delivers it, without lower-casing
activatesAsSpoken(transcript) ==
    \E p \in WakePhrases : includes(trim(transcript), p)

\* lines 125-132
activates(transcript) ==
    \E p \in WakePhrases : includes(toLowerCase(trim(transcript)), p)

\* the utterances the engine delivers: activation phrases in other case, with
\* padding and inside a longer word, and utterances without one
Transcripts ==
    { <<"J", "a", "r", "v", "i", "s">>,
      <<" ", "h", "e", "l", "l", "o", " ", "j", "a", "r", "v", "i", "s", " ">>,
      <<"W", "A", "K", "E", " ", "U", "P">>,
      <<"e", "c", "o", "s", "y", "s", "t", "e", "m">>,
      <<"A", "c", "t", "i", "v", "a", "t", "e", " ", "n", "o", "w">>,
      <<"w", "a", "k", "e", "u", "p">>,
      <<"l", "i", "g", "h", "t", "s", " ", "o", "n">>,
      <<"j", "a", "r", " ", "v", "i", "s">> }

\* "result": a result event was handled
onresult(transcript) ==
    IF activates(transcript)
    THEN connectEntry(TRUE)
    ELSE /\ out' = {"result"}
         /\ UNCHANGED <<svc, apiKey, conn, disc, sess, cam, restartTimers,
                        silenceTimer, processors, leaked, torn>>

\* the engine delivers a final result
OnResult ==
    /\ svc.recognition \in {"on", "stopping"}
    /\ \E transcript \in Transcripts : onresult(transcript)
    /\ UNCHANGED <<playVars, vadVars, toolVars, heard>>

\* the engine delivers a final result, and its transcript is observed
OnResultHeard ==
    /\ svc.recognition \in {"on", "stopping"}
    /\ \E transcript \in Transcripts :
          /\ onresult(transcript)
          /\ heard' = transcript
    /\ UNCHANGED <<playVars, vadVars, toolVars>>

\* recognition.onend (lines 143-154): the engine stopped, by stop() or on its own
OnEnd ==
    /\ svc.recognition \in {"on", "stopping"}
    /\ svc' = [svc EXCEPT !.recognition = "off"]
    /\ IF svc.isWakeWordActive /\ svc.connectionState = "DISCONNECTED"
       THEN /\ restartTimers < MaxTimers
            /\ restartTimers' = restartTimers + 1
       ELSE restartTimers' = restartTimers
    /\ out' = {}
    /\ UNCHANGED <<apiKey, conn, disc, sess, cam, silenceTimer, processors, leaked, torn>>
    /\ UNCHANGED <<playVars, vadVars, toolVars, heard>>

\* the restart timer starts the engine without looking at the flag or the state
RestartTimerUnguarded ==
    /\ restartTimers > 0
    /\ restartTimers' = restartTimers - 1
    /\ svc' = [svc EXCEPT !.recognition = recognitionStart(@)]
    /\ out' = {}
    /\ UNCHANGED <<apiKey, conn, disc, sess, cam, silenceTimer, processors, leaked, torn>>
    /\ UNCHANGED <<playVars, vadVars, toolVars, heard>>

\* the restart timer of onend fires (lines 146-152)
RestartTimer ==
    /\ restartTimers > 0
    /\ restartTimers' = restartTimers - 1
    /\ svc' = IF svc.isWakeWordActive /\ svc.connectionState = "DISCONNECTED"
              THEN [svc EXCEPT !.recognition = recognitionStart(@)]
              ELSE svc
    /\ out' = {}
    /\ UNCHANGED <<apiKey, conn, disc, sess, cam, silenceTimer, processors, leaked, torn>>
    /\ UNCHANGED <<playVars, vadVars, toolVars, heard>>

\* ------------------------------------------------------- capture and VAD
\* the guard lets the callback go on in every state but DISCONNECTED
stillConnectedUnlessIdle(s) == s.connectionState # "DISCONNECTED"

\* the guard of processor.onaudioprocess (line 289)
stillConnected(s) == s.connectionState = "CONNECTED"

\* what becomes of the send of a frame: sendRealtimeInput accepted it, it
\* threw or the session promise was rejected, or the session promise has
\* not settled yet
Sends == {"sent", "failed", "pending"}

\* the event of the then-callback of lines 294-298
sendEvent(sent) ==
    IF sent = "sent" THEN "chunk"
    ELSE IF sent = "failed" THEN "sendFailed" ELSE "sendPending"

\* the VAD is updated before the chunk is handed over
frameStepsVadFirst(loud, sent, speaking) ==
    <<"frame">>
    \o (IF loud /\ ~speaking THEN <<"speakStart">> ELSE <<>>)
    \o (IF loud THEN <<"setTimeout">> ELSE <<>>)
    \o <<sendEvent(sent), "amplitude">>

\* the statements of processor.onaudioprocess past its guard, in program
\* order (lines 291-324): the chunk is handed to the session promise, the
\* amplitude sample is published, the VAD emits 'speaking started' and arms
\* the debounce timeout; loud: rms > 0.01
frameSteps(loud, sent, speaking) ==
    <<"frame", sendEvent(sent), "amplitude">>
    \o (IF loud /\ ~speaking THEN <<"speakStart">> ELSE <<>>)
    \o (IF loud THEN <<"setTimeout">> ELSE <<>>)

\* the events among the statements of a callback
Events(steps) == {steps[i] : i \in DOMAIN steps} \ {"setTimeout"}

\* a send that fails ends the callback
\* the new timeout is armed and the previous one left pending
armDebounceNoClear(n) == n + 1

\* lines 319-323: clearTimeout on the timeout the field holds, which cancels
\* it if it is still pending, then setTimeout
armDebounce(n) == (IF n > 0 THEN n - 1 ELSE n) + 1

onaudioprocessSendFirst(loud, sent) ==
    /\ IF ~stillConnected(svc)
       THEN /\ out' = {"frame"}
            /\ UNCHANGED <<svc, silenceTimer>>
       ELSE IF sent = "failed"
       THEN /\ out' = {"frame", "sendFailed"}
            /\ UNCHANGED <<svc, silenceTimer>>
       ELSE /\ out' = Events(frameSteps(loud, sent, svc.isSpeaking))
            /\ svc' = [svc EXCEPT !.isSpeaking = @ \/ loud]
            /\ silenceTimer' = IF loud THEN armDebounce(silenceTimer)
                               ELSE silenceTimer
    /\ UNCHANGED <<apiKey, conn, disc, sess, cam, restartTimers, processors,
                   leaked, torn>>

\* processor.onaudioprocess (lines 287-325) for one frame: the guard of line
\* 289, then the statements of the callback.  The error of a failed send is
\* taken by the catch of lines 296-298.
onaudioprocess(loud, sent) ==
    /\ IF ~stillConnected(svc)
       THEN /\ out' = {"frame"}
            /\ UNCHANGED <<svc, silenceTimer>>
       ELSE /\ out' = Events(frameSteps(loud, sent, svc.isSpeaking))
            /\ svc' = [svc EXCEPT !.isSpeaking = @ \/ loud]
            /\ silenceTimer' = IF loud THEN armDebounce(silenceTimer)
                               ELSE silenceTimer
    /\ UNCHANGED <<apiKey, conn, disc, sess, cam, restartTimers, processors,
                   leaked, torn>>

\* the audio subsystem delivers a frame
OnAudioProcess ==
    /\ processors # {}
    /\ \E loud \in BOOLEAN, sent \in Sends : onaudioprocess(loud, sent)
    /\ UNCHANGED <<playVars, vadVars, toolVars, heard>>

\* the callback of the debounce timeout (lines 320-323)
silenceTimeout ==
    /\ silenceTimer' = silenceTimer - 1
    /\ svc' = [svc EXCEPT !.isSpeaking = FALSE]
    /\ out' = {"speakStop"}
    /\ UNCHANGED <<apiKey, conn, disc, sess, cam, restartTimers, processors,
                   leaked, torn>>

\* the debounce timeout fires
SilenceTimer ==
    /\ silenceTimer > 0
    /\ silenceTimeout
    /\ UNCHANGED <<playVars, vadVars, toolVars, heard>>

\* ------------------------------------------------------- the VAD in time
\* the debounce window of line 323 (400 ms), in units of 100 ms
Debounce == 4

\* the timeout is re-armed on every frame, loud or not
armTimerEveryFrame(d, loud, t) == t + Debounce

\* a pending timeout is not cancelled by a new above-threshold frame
armTimerNoCancel(d, loud, t) == IF loud /\ d = 0 THEN t + Debounce ELSE d

\* lines 314-323: an above-threshold frame cancels the pending timeout and
\* sets a new one, a silence frame leaves it alone
armTimer(d, loud, t) == IF loud THEN t + Debounce ELSE d

\* a frame is delivered at wall-clock time wall
OnAudioProcessAt ==
    /\ processors # {}
    /\ \E loud \in BOOLEAN, sent \in Sends :
          /\ onaudioprocess(loud, sent)
          /\ IF stillConnected(svc)
             THEN /\ deadline' = armTimer(deadline, loud, wall)
                  /\ loudAt' = IF loud THEN loudAt \cup {wall} ELSE loudAt
                  /\ quietSeen' = ~loud
             ELSE UNCHANGED <<deadline, loudAt, quietSeen>>
    /\ vadLog' = IF "speakStart" \in out'
                 THEN Append(vadLog, [t |-> wall, speaking |-> TRUE]) ELSE vadLog
    /\ UNCHANGED <<playVars, toolVars, heard, wall>>

\* the debounce timeout expires
SilenceTimerDue ==
    /\ deadline # 0
    /\ wall = deadline
    /\ silenceTimeout
    /\ deadline' = 0
    /\ vadLog' = Append(vadLog, [t |-> wall, speaking |-> FALSE])
    /\ UNCHANGED <<playVars, toolVars, heard, wall, loudAt, quietSeen>>

\* 100 ms pass; a timeout that is due fires first
Tock ==
    /\ wall < MaxNow
    /\ ~(deadline # 0 /\ wall = deadline)
    /\ wall' = wall + 1
    /\ out' = {}
    /\ UNCHANGED <<lifeVars, playVars, toolVars, heard, deadline, loudAt,
                   quietSeen, vadLog>>

\* ------------------------------------------------------- playback
\* the fields handleMessage works on, as one record
Player == [nextStartTime |-> nextStartTime, sources |-> sources,
           played |-> played, firstAfter |-> firstAfter, interrupted |-> FALSE]

\* the cursor is always taken from the clock
alignCursorClockOnly(nst, now) == now

\* line 341: Math.max(this.nextStartTime, this.outputAudioContext.currentTime)
alignCursor(nst, now) == IF nst > now THEN nst ELSE now

\* decodeAudioData (../utils/audioUtils): the payload becomes a buffer of the
\* segment's duration; the promise is settled when it is awaited, so the
\* caller goes on in the same task
decodeAudioData(m) == m.dur

\* lines 340-350: align the cursor, decode, start the source at the cursor,
\* advance the cursor by the duration, add the source to the active set.
\* stale: an interruption was handled between the arrival of the segment's
\* message and this step.
scheduleSegment(p, m, now) ==
    LET cursor == alignCursor(p.nextStartTime, now)
        dur == decodeAudioData(m)
    IN [p EXCEPT !.nextStartTime = cursor + dur,
                 !.sources = @ \cup {[start |-> cursor, dur |-> dur,
                                      stale |-> m.stale]},
                 !.played = Append(@, [start |-> cursor, dur |-> dur,
                                       arrived |-> m.arrived, fresh |-> m.fresh,
                                       seq |-> m.seq])]

\* lines 397-402: stop every source, clear the set, reset the cursor
interruption(p) ==
    [p EXCEPT !.nextStartTime = 0, !.sources = {}, !.played = <<>>,
              !.firstAfter = TRUE, !.interrupted = TRUE]

\* handleMessage after the resume() of line 337: the audio part (lines
\* 340-350), then the interruption marker (lines 397-402)
handleMessage(p, m, now) ==
    LET a == IF m.dur > 0 THEN scheduleSegment(p, m, now) ELSE p
    IN IF m.interrupted THEN interruption(a) ELSE [a EXCEPT !.interrupted = FALSE]

\* the suspended handleMessage calls go on newest first
RECURSIVE resumeAllNewestFirst(_, _, _)
resumeAllNewestFirst(p, q, now) ==
    IF q = <<>> THEN p
    ELSE resumeAllNewestFirst(handleMessage(p, q[Len(q)], now),
                              SubSeq(q, 1, Len(q) - 1), now)

\* the suspended handleMessage calls go on in the order they were suspended
RECURSIVE resumeAll(_, _, _)
resumeAll(p, q, now) ==
    IF q = <<>> THEN p ELSE resumeAll(handleMessage(p, Head(q), now), Tail(q), now)

setPlayer(p) ==
    /\ nextStartTime' = p.nextStartTime
    /\ sources' = p.sources
    /\ played' = p.played
    /\ firstAfter' = p.firstAfter
    /\ out' = IF p.interrupted THEN {"interrupted"} ELSE {}

\* the calls suspended at resume() when an interruption is handled: their
\* messages arrived before it
overtaken(q) == [i \in DOMAIN q |-> [q[i] EXCEPT !.stale = TRUE]]

\* callbacks.onmessage (line 256) with an audio payload, an interruption
\* marker or both: handleMessage up to its first await or its return
OnMessage ==
    /\ sess["open"] > 0
    /\ svc.outputAudioContext = "open"
    /\ \E d \in Durations \cup {0}, intr \in BOOLEAN :
          LET m == [dur |-> d, interrupted |-> intr, arrived |-> clock,
                    fresh |-> (d > 0 /\ firstAfter), stale |-> FALSE,
                    seq |-> arrivals + 1]
              p == [Player EXCEPT !.firstAfter = @ /\ d = 0]
          IN /\ d > 0 \/ intr
             /\ d > 0 => arrivals < MaxSegs
             /\ arrivals' = IF d > 0 THEN arrivals + 1 ELSE arrivals
             /\ IF d > 0 /\ suspended
                THEN /\ waiting' = Append(waiting, m)
                     /\ setPlayer(p)
                ELSE /\ waiting' = IF intr THEN overtaken(waiting) ELSE waiting
                     /\ setPlayer(handleMessage(p, m, clock))
    /\ UNCHANGED <<lifeVars, vadVars, toolVars, heard, clock, suspended>>

\* the platform suspends the playback context
ContextSuspended ==
    /\ svc.outputAudioContext = "open"
    /\ ~suspended
    /\ suspended' = TRUE
    /\ out' = {}
    /\ UNCHANGED <<lifeVars, vadVars, toolVars, heard, nextStartTime,
                   sources, clock, waiting, arrivals,
                   firstAfter, played>>

\* what the task that resumes the context's pending calls shows: one call
\* went on ("resumed"), a second one went on after it ("resumedNext")
resumedEvents(q) ==
    IF Len(q) = 0 THEN {}
    ELSE IF Len(q) = 1 THEN {"resumed"} ELSE {"resumed", "resumedNext"}

\* the playback context runs again: every pending resume() of line 337 resolves
ContextResumed ==
    /\ suspended
    /\ suspended' = FALSE
    /\ waiting' = <<>>
    /\ LET p == resumeAll(Player, waiting, clock)
       IN /\ nextStartTime' = p.nextStartTime
          /\ sources' = p.sources
          /\ played' = p.played
          /\ firstAfter' = p.firstAfter
          /\ out' = resumedEvents(waiting)
                     \cup (IF p.interrupted THEN {"interrupted"} ELSE {})
    /\ UNCHANGED <<lifeVars, vadVars, toolVars, heard, clock, arrivals>>

\* the playback clock advances while the context runs
Tick ==
    /\ ~suspended
    /\ clock < MaxClock
    /\ clock' = clock + 1
    /\ out' = {}
    /\ UNCHANGED <<lifeVars, vadVars, toolVars, heard, nextStartTime,
                   sources, suspended, waiting, arrivals,
                   firstAfter, played>>

\* source.onended (line 350): a segment that has played out leaves the set
SourceEnded ==
    /\ \E s \in sources :
          /\ s.start + s.dur <= clock
          /\ sources' = sources \ {s}
    /\ out' = {}
    /\ UNCHANGED <<lifeVars, vadVars, toolVars, heard, nextStartTime, clock,
                   suspended, waiting, arrivals,
                   firstAfter, played>>

\* ------------------------------------------------------- tool dispatch
\* the ids the remote gives its function calls
ToolIds == {"a", "b"}

\* the function calls a tool message can list: the six declared tools
\* (lines 6-76, 248) with their arguments, and a name that is not declared
FunctionCalls ==
    [id : ToolIds, name : {"toggleTheme"}, arg : {"BLUE", "RED"}]
    \cup [id : ToolIds, name : {"controlFlashlight"}, arg : {"ON", "OFF"}]
    \cup [id : ToolIds, arg : {"none"},
          name : {"scanSystem", "searchDatabase", "openApp", "sendNotification",
                  "unknownTool"}]

\* a tool message lists one or two calls, each with its own id
ToolMessages ==
    {<<a>> : a \in FunctionCalls}
    \cup {x \in FunctionCalls \X FunctionCalls : x[1].id # x[2].id}

\* the status update carries the theme that was not asked for
toolUpdateOther(fc) ==
    IF fc.name = "toggleTheme"
    THEN <<[kind |-> "theme", theme |-> IF fc.arg = "RED" THEN "BLUE" ELSE "RED"]>>
    ELSE IF fc.name = "scanSystem" THEN <<[kind |-> "scan", theme |-> "none"]>>
    ELSE <<>>

\* lines 364 and 368: the system-status updates a call emits
toolUpdate(fc) ==
    IF fc.name = "toggleTheme" THEN <<[kind |-> "theme", theme |-> fc.arg]>>
    ELSE IF fc.name = "scanSystem" THEN <<[kind |-> "scan", theme |-> "none"]>>
    ELSE <<>>

\* lines 359-382: the status the result of a call carries; "empty": the
\* result stays {}
toolStatus(fc) ==
    CASE fc.name = "toggleTheme" -> "success"
      [] fc.name = "scanSystem" -> "OPTIMAL"
      [] fc.name = "openApp" -> "opened"
      [] fc.name = "controlFlashlight" -> "success"
      [] fc.name = "sendNotification" -> "sent"
      [] OTHER -> "empty"

\* every response carries the same id
toolResponseUnkeyed(fc) == [id |-> "a", name |-> fc.name, status |-> toolStatus(fc)]

\* lines 385-393: the response sent for a call
toolResponse(fc) == [id |-> fc.id, name |-> fc.name, status |-> toolStatus(fc)]

\* lines 375-376 and handleFlashlight up to its first await (lines 419-428):
\* OFF stops and drops the camera stream, ON requests the camera
flashlightCall(d, fc) ==
    IF fc.name # "controlFlashlight" THEN d
    ELSE IF fc.arg = "ON" THEN [d EXCEPT !.cam = @ + 1]
    ELSE [d EXCEPT !.svc.videoStream = "null"]

\* the response of a later call is sent before those of the earlier ones
RECURSIVE dispatchNewestFirst(_, _)
dispatchNewestFirst(d, fcs) ==
    IF fcs = <<>> THEN d
    ELSE LET fc == Head(fcs)
             e == flashlightCall(d, fc)
         IN dispatchNewestFirst([e EXCEPT !.updates = @ \o toolUpdate(fc),
                                          !.responses = <<toolResponse(fc)>> \o @],
                                Tail(fcs))

\* the loop of lines 357-394 over the calls of one message.  The responses
\* are sent by the then-callbacks of the resolved session promise, which run
\* in the order they were registered once the loop has ended.
RECURSIVE dispatch(_, _)
dispatch(d, fcs) ==
    IF fcs = <<>> THEN d
    ELSE LET fc == Head(fcs)
             e == flashlightCall(d, fc)
         IN dispatch([e EXCEPT !.updates = @ \o toolUpdate(fc),
                               !.responses = Append(@, toolResponse(fc))],
                     Tail(fcs))

\* callbacks.onmessage (line 254) with a tool message: handleMessage lines
\* 356-395 (a message of the Live API carries server content or tool calls)
OnToolMessage ==
    /\ sess["open"] > 0
    /\ \E fcs \in ToolMessages :
          LET d == dispatch([svc |-> svc, cam |-> cam, updates |-> <<>>,
                             responses |-> <<>>], fcs)
          IN /\ d.cam <= MaxCalls
             /\ svc' = d.svc
             /\ cam' = d.cam
             /\ calls' = fcs
             /\ responses' = d.responses
             /\ updates' = d.updates
    /\ out' = {"tool"}
    /\ UNCHANGED <<apiKey, conn, disc, sess, restartTimers, silenceTimer,
                   processors, leaked, torn>>
    /\ UNCHANGED <<playVars, vadVars, heard>>

\* ------------------------------------------------------- specification
\* The connection life cycle: connect(), disconnect(), the session callbacks
\* and the recognition engine.
Next ==
    \/ ToggleConnect
    \/ ConnectGraceEnd
    \/ ConnectResumed
    \/ ConnectGum1
    \/ ConnectGum2
    \/ Disconnect
    \/ DisconnectInputClosed
    \/ DisconnectOutputClosed
    \/ SessionOpen
    \/ SessionError
    \/ SessionClose
    \/ OnResult
    \/ OnEnd
    \/ RestartTimer

Spec == Init /\ [][Next]_vars

\* The capture pipeline and the VAD over the connection life cycle, in a
\* browser without SpeechRecognition (initWakeWordDetection returns at line
\* 110 and this.recognition stays null, so the engine never runs) and with
\* the API key set.
InitCapture ==
    /\ InitService("null")
    /\ apiKey = TRUE

NextCapture ==
    \/ ToggleConnect
    \/ ConnectGraceEnd
    \/ ConnectResumed
    \/ ConnectGum1
    \/ ConnectGum2
    \/ Disconnect
    \/ DisconnectInputClosed
    \/ DisconnectOutputClosed
    \/ SessionOpen
    \/ SessionError
    \/ SessionClose
    \/ OnAudioProcess
    \/ SilenceTimer

SpecCapture == InitCapture /\ [][NextCapture]_vars

\* Sessions that end from the remote side: the API key is set, the
\* microphone is granted at the first request, connect() is started by a
\* click or by a wake phrase, and each session ends through onerror or
\* onclose; nothing calls disconnect().
InitSession ==
    /\ InitService("on")
    /\ apiKey = TRUE

NextSession ==
    \/ ToggleConnect
    \/ OnResult
    \/ ConnectGraceEnd
    \/ ResumeResolved
    \/ Gum1Granted
    \/ SessionOpen
    \/ SessionError
    \/ SessionClose
    \/ OnEnd
    \/ RestartTimer

SpecSession == InitSession /\ [][NextSession]_vars

\* Session establishment with every way it can end: onopen, onerror, onclose
\* or a rejection of the connect promise with no callback.  The API key is
\* set and the browser has no SpeechRecognition.  Fairness: the 800 ms timer
\* of line 189 fires, every awaited promise of connect() and disconnect()
\* settles, and every session being established settles in one of the four
\* ways; clicks and unmounts (ToggleConnect, Disconnect) are not fair.
InitEstablish == InitCapture

NextEstablish ==
    \/ ToggleConnect
    \/ ConnectGraceEnd
    \/ ConnectResumed
    \/ ConnectGum1
    \/ ConnectGum2
    \/ Disconnect
    \/ DisconnectInputClosed
    \/ DisconnectOutputClosed
    \/ SessionOpen
    \/ SessionError
    \/ SessionClose
    \/ SessionRejected

SessionSettles == SessionOpen \/ SessionError \/ SessionClose \/ SessionRejected

FairEstablish ==
    /\ WF_vars(ConnectGraceEnd)
    /\ WF_vars(ConnectResumed)
    /\ WF_vars(ConnectGum1)
    /\ WF_vars(ConnectGum2)
    /\ WF_vars(DisconnectInputClosed)
    /\ WF_vars(DisconnectOutputClosed)
    /\ WF_vars(SessionSettles)

SpecEstablish == InitEstablish /\ [][NextEstablish]_vars /\ FairEstablish

\* the same without the silent rejection
NextEstablishCallbacks ==
    \/ ToggleConnect
    \/ ConnectGraceEnd
    \/ ConnectResumed
    \/ ConnectGum1
    \/ ConnectGum2
    \/ Disconnect
    \/ DisconnectInputClosed
    \/ DisconnectOutputClosed
    \/ SessionOpen
    \/ SessionError
    \/ SessionClose

SpecEstablishCallbacks ==
    InitEstablish /\ [][NextEstablishCallbacks]_vars
        /\ FairEstablish

\* The preferred microphone constraints are rejected by the device: every
\* first getUserMedia request fails and the bare request decides.  The API
\* key is set; sessions end from the remote side or through the catch block.
InitFallback ==
    /\ InitService("on")
    /\ apiKey = TRUE

NextFallback ==
    \/ ToggleConnect
    \/ OnResult
    \/ ConnectGraceEnd
    \/ ResumeResolved
    \/ Gum1Denied
    \/ ConnectGum2
    \/ DisconnectInputClosed
    \/ DisconnectOutputClosed
    \/ SessionOpen
    \/ SessionError
    \/ SessionClose
    \/ OnEnd
    \/ RestartTimer

SpecFallback == InitFallback /\ [][NextFallback]_vars

\* The wake-phrase listener at work: the API key is set, the microphone is
\* granted, the transcript of every result is observed, and sessions end
\* from the remote side.
InitWake ==
    /\ InitService("on")
    /\ apiKey = TRUE

NextWake ==
    \/ OnResultHeard
    \/ ConnectGraceEnd
    \/ ResumeResolved
    \/ Gum1Granted
    \/ SessionOpen
    \/ SessionError
    \/ SessionClose
    \/ OnEnd
    \/ RestartTimer

SpecWake == InitWake /\ [][NextWake]_vars

\* Playback within one open session: the state connect() and onopen lead to
\* (CONNECTED, both contexts open, the microphone held, the engine ended),
\* then inbound messages, the playback clock and the platform.
InitPlay ==
    /\ svc = [connectionState |-> "CONNECTED",
              isWakeWordActive |-> FALSE,
              recognition |-> "off",
              inputAudioContext |-> "open",
              outputAudioContext |-> "open",
              stream |-> "live",
              videoStream |-> "null",
              isSpeaking |-> FALSE,
              shown |-> "CONNECTED"]
    /\ apiKey = TRUE
    /\ conn = [p \in ConnPc |-> 0]
    /\ disc = [p \in DiscPc |-> 0]
    /\ sess = [p \in SessPc |-> IF p = "open" THEN 1 ELSE 0]
    /\ cam = 0
    /\ restartTimers = 0
    /\ silenceTimer = 0
    /\ processors = {"field"}
    /\ leaked = {}
    /\ torn = FALSE
    /\ out = {}
    /\ nextStartTime = 0
    /\ sources = {}
    /\ clock = 0
    /\ suspended = FALSE
    /\ waiting = <<>>
    /\ arrivals = 0
    /\ firstAfter = FALSE
    /\ played = <<>>
    /\ wall = 0
    /\ deadline = 0
    /\ loudAt = {}
    /\ quietSeen = FALSE
    /\ vadLog = <<>>
    /\ calls = <<>>
    /\ responses = <<>>
    /\ updates = <<>>
    /\ heard = <<>>

NextPlay ==
    \/ OnMessage
    \/ ContextSuspended
    \/ ContextResumed
    \/ Tick
    \/ SourceEnded

SpecPlay == InitPlay /\ [][NextPlay]_vars

\* Playback across reconnects: a session is open and receives inbound audio
\* back to back, the remote side closes it, and the user connects again (the
\* microphone is granted).  The messages of one session arrive within one
\* unit of the playback clock.
InitReplay == InitPlay

NextReplay ==
    \/ OnMessage
    \/ SessionClose
    \/ ToggleConnect
    \/ ConnectGraceEnd
    \/ ResumeResolved
    \/ Gum1Granted
    \/ SessionOpen

SpecReplay == InitReplay /\ [][NextReplay]_vars

\* The microphone is denied or busy for good: every connect(), by a click or
\* by a wake phrase, fails at the key check or, with the key set, at
\* microphone acquisition, where its catch block tears it down.
InitDenied == Init

NextDenied ==
    \/ ToggleConnect
    \/ OnResult
    \/ ConnectGraceEnd
    \/ ResumeResolved
    \/ Gum1Denied
    \/ Gum2Denied
    \/ DisconnectInputClosed
    \/ DisconnectOutputClosed
    \/ OnEnd
    \/ RestartTimer

SpecDenied == InitDenied /\ [][NextDenied]_vars

\* The VAD in time within one open session: frames, the debounce timeout and
\* the wall clock.
InitVad == InitPlay

NextVad ==
    \/ OnAudioProcessAt
    \/ SilenceTimerDue
    \/ Tock

SpecVad == InitVad /\ [][NextVad]_vars

\* Tool dispatch within one open session: tool messages and the camera
\* requests of the flashlight handler.
InitTools == InitPlay

NextTools ==
    \/ OnToolMessage
    \/ CameraSettled

SpecTools == InitTools /\ [][NextTools]_vars

TypeOK ==
    /\ svc.connectionState \in ConnectionState
    /\ svc.isWakeWordActive \in BOOLEAN
    /\ svc.recognition \in {"null", "off", "on", "stopping"}
    /\ svc.inputAudioContext \in {"null", "open", "closing"}
    /\ svc.outputAudioContext \in {"null", "open", "closing"}
    /\ svc.stream \in {"null", "live"}
    /\ svc.videoStream \in {"null", "live"}
    /\ Calls <= MaxCalls /\ Discs <= MaxDisc /\ cam <= MaxCalls
    /\ restartTimers <= MaxTimers
    /\ processors \subseteq {"field", "leakedCtx"}
    /\ leaked \subseteq {"ctx", "mic", "cam"}
    /\ silenceTimer \in Nat
    /\ svc.shown \in ConnectionState

\* ======================================================= claims
\* ------------------------------------------------------- C1
AllowedEdges ==
    {<<"DISCONNECTED", "CONNECTING">>, <<"CONNECTING", "CONNECTED">>,
     <<"CONNECTING", "ERROR">>, <<"CONNECTED", "DISCONNECTED">>,
     <<"CONNECTED", "ERROR">>, <<"ERROR", "DISCONNECTED">>}

\* C1: every change of connectionState follows one of the six edges
\* DISCONNECTED->CONNECTING, CONNECTING->CONNECTED, CONNECTING->ERROR,
\* CONNECTED->DISCONNECTED, CONNECTED->ERROR, ERROR->DISCONNECTED.
C1_OnlyListedEdges ==
    [][svc'.connectionState # svc.connectionState
          => <<svc.connectionState, svc'.connectionState>> \in AllowedEdges]_vars

\* ------------------------------------------------------- C2
\* C2: the result handler of the wake-phrase listener never invokes connect()
\* while connectionState is CONNECTING or CONNECTED.
C2_NoWakeConnectWhileBusy ==
    [][("wakeConnect" \in out' /\ OnResult)
          => svc.connectionState \notin {"CONNECTING", "CONNECTED"}]_vars

\* ------------------------------------------------------- C3
\* C3: whenever the recognition engine is running, connectionState is
\* DISCONNECTED and isWakeWordActive is true.
C3_EngineOnlyWhenIdle ==
    svc.recognition = "on"
        => (svc.connectionState = "DISCONNECTED" /\ svc.isWakeWordActive)

\* ------------------------------------------------------- C4
\* C4: the recognition engine never runs while the service holds a microphone
\* stream whose tracks are not stopped.
C4_MicExclusive == ~(svc.recognition = "on" /\ svc.stream = "live")

\* ------------------------------------------------------- C5
\* C5: no outbound chunk is sent, no amplitude sample is published and no
\* speaking-state change (started or stopped) is emitted by a task that runs
\* while connectionState is not CONNECTED.
C5_OnlyWhileConnected ==
    out \cap {"chunk", "amplitude", "speakStart", "speakStop"} # {}
        => svc.connectionState = "CONNECTED"

\* C5 amended: no outbound chunk is sent, no amplitude sample is published
\* and no 'speaking started' is emitted by a task that runs while
\* connectionState is not CONNECTED.
C5_CaptureOnlyWhileConnected ==
    out \cap {"chunk", "amplitude", "speakStart"} # {}
        => svc.connectionState = "CONNECTED"

\* the audio subsystem delivered a frame while the state was not CONNECTED
C5_Witness == "frame" \in out /\ svc.connectionState # "CONNECTED"

\* ------------------------------------------------------- C6
\* C6: when disconnect() has been called twice in a row and both calls have
\* completed, connectionState is DISCONNECTED, no microphone or camera track
\* is live and no audio context is open, whether the service still
\* references it or not.
C6_DisconnectTwice ==
    "twice" \in out =>
        /\ svc.connectionState = "DISCONNECTED"
        /\ svc.stream = "null" /\ svc.videoStream = "null"
        /\ svc.inputAudioContext # "open" /\ svc.outputAudioContext # "open"
        /\ leaked = {}

\* ------------------------------------------------------- C7
\* C7: once a disconnect() has completed, and until connect() is called again,
\* connectionState is DISCONNECTED, no microphone stream and no audio context
\* is held and no capture pipeline is attached.
C7_TornDownStable ==
    torn => /\ svc.connectionState = "DISCONNECTED"
            /\ svc.stream = "null"
            /\ svc.inputAudioContext = "null"
            /\ svc.outputAudioContext = "null"
            /\ "field" \notin processors

\* ------------------------------------------------------- C8
\* nothing is in flight: no call suspended, no session alive, no timer
\* pending, no engine event due
Quiet ==
    /\ Calls = 0
    /\ Discs = 0
    /\ restartTimers = 0
    /\ svc.recognition # "stopping"

\* C8: when no session is CONNECTING or CONNECTED and nothing is in flight
\* (so that without a user action nothing more happens), the recognition
\* engine is running.
C8_NeverSilent ==
    (Quiet /\ svc.connectionState \notin {"CONNECTING", "CONNECTED"})
        => svc.recognition = "on"

\* ------------------------------------------------------- C9
\* the scheduled end of the segment scheduled before the i-th one
PrevEnd(i) == IF i = 1 THEN 0 ELSE played[i - 1].start + played[i - 1].dur

\* C9: among the segments scheduled since the last interruption, a segment
\* that arrived before the scheduled end of the one before it starts exactly
\* at that end (previous start plus previous duration), the first one and
\* every one that arrived later than that end start at the clock time of
\* their arrival, and no two segments of the active set overlap.
C9_SequentialGapless ==
    /\ \A i \in DOMAIN played :
          played[i].start = IF played[i].arrived < PrevEnd(i)
                            THEN PrevEnd(i) ELSE played[i].arrived
    /\ \A a, b \in sources :
          a # b => (a.start + a.dur <= b.start \/ b.start + b.dur <= a.start)

\* durations 500, 300, 700 ms arrived back to back and start at 0, 500, 800 ms
C9_Witness ==
    /\ Len(played) = 3
    /\ played[1].dur = 5 /\ played[1].start = 0
    /\ played[2].dur = 3 /\ played[2].start = 5
    /\ played[3].dur = 7 /\ played[3].start = 8
    /\ \A i \in 1..3 : played[i].arrived = 0

\* ------------------------------------------------------- C10
\* C10: right after an interruption marker was handled the active set is
\* empty and nextStartTime is 0, and the first segment to arrive after an
\* interruption is scheduled to start at the clock time of its arrival.
C10_InterruptionResets ==
    /\ "interrupted" \in out => (sources = {} /\ nextStartTime = 0)
    /\ \A i \in DOMAIN played :
          played[i].fresh => played[i].start = played[i].arrived

\* ------------------------------------------------------- C11
\* the above-threshold frames processed in the open interval (a, b)
LoudBetween(a, b) == {x \in loudAt : a < x /\ x < b}

\* C11: every 'speaking stopped' comes exactly 400 ms after an
\* above-threshold frame that no other above-threshold frame followed in
\* between, and while the period lasts the timeout is pending for 400 ms
\* after the last above-threshold frame, whatever silence frames arrive.
C11_DebounceExact ==
    /\ \A i \in DOMAIN vadLog :
          ~vadLog[i].speaking =>
              /\ vadLog[i].t - Debounce \in loudAt
              /\ LoudBetween(vadLog[i].t - Debounce, vadLog[i].t) = {}
    /\ svc.isSpeaking =>
          /\ loudAt # {}
          /\ \A x \in loudAt : x + Debounce <= deadline
          /\ deadline - Debounce \in loudAt
          /\ wall <= deadline

\* a period that silence frames did not end early has been stopped
C11_Witness == "speakStop" \in out /\ quietSeen /\ wall - Debounce \in loudAt

\* ------------------------------------------------------- C12
\* C12: between two above-threshold frames less than 400 ms apart no
\* speaking-state change is emitted, the changes alternate (started, stopped,
\* started, ...) and every 'speaking started' is emitted at an
\* above-threshold frame.
C12_Continuity ==
    /\ \A a, b \in loudAt :
          (a < b /\ b - a < Debounce /\ LoudBetween(a, b) = {}) =>
              \A i \in DOMAIN vadLog : ~(a < vadLog[i].t /\ vadLog[i].t <= b)
    /\ \A i \in DOMAIN vadLog :
          /\ vadLog[i].speaking = (i % 2 = 1)
          /\ vadLog[i].speaking => vadLog[i].t \in loudAt

\* exceedances at 0, 300 and 600 ms: one start at 0, one stop at 1000 ms
C12_Witness ==
    /\ loudAt = {0, 3, 6}
    /\ vadLog = <<[t |-> 0, speaking |-> TRUE], [t |-> 10, speaking |-> FALSE]>>

\* ------------------------------------------------------- C13
\* C13: for every toggleTheme call of the last tool message, with id i and
\* theme T, a system-status update with theme T was emitted and a response
\* with id i, name toggleTheme and a success status was sent.
C13_ToggleTheme ==
    \A k \in DOMAIN calls :
        calls[k].name = "toggleTheme" =>
            /\ \E u \in DOMAIN updates :
                  updates[u] = [kind |-> "theme", theme |-> calls[k].arg]
            /\ \E r \in DOMAIN responses :
                  responses[r] = [id |-> calls[k].id, name |-> "toggleTheme",
                                  status |-> "success"]

\* a toggleTheme call for RED was dispatched
C13_Witness ==
    /\ "tool" \in out
    /\ \E k \in DOMAIN calls : calls[k].name = "toggleTheme" /\ calls[k].arg = "RED"

\* ------------------------------------------------------- C14
\* C14: with the API key set, once every connect() has failed at microphone
\* acquisition and every teardown it started has completed, no audio context
\* is open, held or orphaned, no microphone stream is held, connectionState
\* is DISCONNECTED and the wake-phrase listener is active again.
C14_NothingLeftOpen ==
    (apiKey /\ Calls = 0 /\ Discs = 0) =>
        /\ svc.inputAudioContext # "open" /\ svc.outputAudioContext # "open"
        /\ "ctx" \notin leaked
        /\ svc.stream = "null" /\ "mic" \notin leaked
        /\ svc.connectionState = "DISCONNECTED"
        /\ svc.isWakeWordActive

\* ------------------------------------------------------- C15
\* C15: a connect() with the API key absent sets connectionState to ERROR,
\* emits a log and changes nothing else: the listener (active flag and
\* engine), the contexts, the streams and nextStartTime stay as they were, no
\* call is suspended (no grace period, no microphone request) and no session
\* is requested.
C15_FailFast ==
    [][(~apiKey /\ (ToggleConnect \/ (OnResult /\ "wakeConnect" \in out')))
          => /\ svc' = updateState(svc, "ERROR")
             /\ "keyLog" \in out'
             /\ conn' = conn /\ sess' = sess
             /\ nextStartTime' = nextStartTime
             /\ processors' = processors /\ leaked' = leaked]_vars

\* a connect() without the key has returned and the listener still runs
C15_Witness ==
    /\ ~apiKey
    /\ "keyLog" \in out
    /\ svc.connectionState = "ERROR"
    /\ svc.isWakeWordActive /\ svc.recognition = "on"

\* C16: no acquired microphone stream, audio context or camera stream is
\* overwritten while still live: every resource acquired by a connect() or
\* a flashlight call is still referenced by the service or was released.
C16_NothingOrphaned == leaked = {}

\* C17: when onError is handled, the microphone tracks are stopped and both
\* audio contexts are closed before the wake-phrase listener is started
\* again: the handler does not leave the listener active next to a live
\* stream or an open context.
C17_ErrorTearsDown ==
    [][(SessionError /\ svc'.isWakeWordActive)
          => /\ svc'.stream = "null"
             /\ svc'.inputAudioContext # "open"
             /\ svc'.outputAudioContext # "open"]_vars

\* C18: once disconnect() has stopped the microphone tracks, no capture
\* callback processes a frame any more: no chunk is sent while a
\* disconnect() is past its track-stopping step and the stream it stopped
\* has not been replaced.
C18_NoFrameAfterTracksStopped ==
    ~("chunk" \in out /\ Discs > 0 /\ svc.stream = "null")

\* C19: when onClose is handled connectionState becomes DISCONNECTED, when
\* onError is handled it becomes ERROR, and in both cases, when the handler
\* returns, the listener's active flag is true and recognition.start() has
\* been called on the engine.
C19_FallBackToListening ==
    [][/\ SessionClose => svc'.connectionState = "DISCONNECTED"
       /\ SessionError => svc'.connectionState = "ERROR"
       /\ (SessionClose \/ SessionError)
             => /\ svc'.isWakeWordActive
                /\ svc'.recognition = recognitionStart(svc.recognition)]_vars

C19_Witness ==
    /\ svc.connectionState = "DISCONNECTED"
    /\ svc.isWakeWordActive /\ svc.recognition = "on"
    /\ svc.stream = "live"
    /\ Calls = 0 /\ Discs = 0
    /\ sess = [p \in SessPc |-> 0]

\* C20: connect() stops the listener first (active flag false), the
\* connectionState stays unchanged for the whole grace period of a call, and
\* only the end of the grace period makes the state CONNECTING and requests
\* the microphone.
C20_GraceThenConnecting ==
    [][/\ (ToggleConnect \/ (OnResult /\ "wakeConnect" \in out'))
             => /\ ~svc'.isWakeWordActive
                /\ svc'.connectionState = svc.connectionState
       /\ (conn["grace"] > 0 /\ conn'["grace"] > 0)
             => svc'.connectionState = svc.connectionState
       /\ ConnectGraceEnd
             => /\ svc'.connectionState = "CONNECTING"
                /\ conn'["resume"] + conn'["gum1"] > conn["resume"] + conn["gum1"]]_vars

\* C21: a rejection of the preferred constraints is not fatal: the bare
\* request is made without a state change or an error log, and when it
\* succeeds the remote session is requested with the fallback stream, again
\* without connectionState becoming ERROR and without an error log.
C21_FallbackNotFatal ==
    [][/\ Gum1Denied
             => /\ conn'["gum2"] = conn["gum2"] + 1
                /\ svc' = svc
                /\ out' \cap {"failureLog", "micError"} = {}
       /\ (ConnectGum2 /\ "micOnline" \in out')
             => /\ sess'["pending"] = sess["pending"] + 1
                /\ svc'.stream = "live"
                /\ svc'.connectionState = svc.connectionState
                /\ out' \cap {"failureLog", "micError"} = {}]_vars

C21_Witness ==
    /\ "micOnline" \in out
    /\ svc.connectionState = "CONNECTING"
    /\ svc.stream = "live"
    /\ sess["pending"] > 0

\* C22: when the engine ends, a restart is scheduled exactly if the active
\* flag is true and connectionState is DISCONNECTED at that moment; when the
\* restart timer fires, the engine is started only if both still hold, and
\* otherwise the timer changes nothing.
Listening(s) == s.isWakeWordActive /\ s.connectionState = "DISCONNECTED"

C22_RestartGuard ==
    [][/\ OnEnd => (restartTimers' = restartTimers + 1 <=> Listening(svc))
       /\ OnEnd => (restartTimers' # restartTimers => Listening(svc))
       /\ (restartTimers' = restartTimers - 1)
             => /\ svc'.recognition # svc.recognition => Listening(svc)
                /\ ~Listening(svc) => svc' = svc]_vars

\* the engine has ended, its restart is pending, and a connect() that came
\* during the delay has stopped the listener and waits in its grace period
C22_Witness ==
    /\ restartTimers > 0
    /\ svc.recognition = "off"
    /\ ~svc.isWakeWordActive
    /\ conn["grace"] > 0

\* C23: startWakeWordDetection() and stopWakeWordDetection() are idempotent:
\* in every state the service reaches, calling either twice in a row leaves
\* the active flag and the engine as one call does (the engine's error on
\* the second call is swallowed, so the call returns a state).
C23_Idempotent ==
    /\ startWakeWordDetection(startWakeWordDetection(svc)) = startWakeWordDetection(svc)
    /\ stopWakeWordDetection(stopWakeWordDetection(svc)) = stopWakeWordDetection(svc)

\* two connect() calls in a row have each called stopWakeWordDetection() on
\* an engine that has not ended yet
C23_Witness ==
    /\ conn["grace"] = 2
    /\ ~svc.isWakeWordActive
    /\ svc.recognition = "stopping"

\* C24: on a recognized utterance connect() is invoked if and only if the
\* trimmed, lower-cased transcript contains "hello jarvis", "jarvis",
\* "wake up", "system" or "activate"; an utterance with none of them changes
\* no state.
ActivationSet ==
    { <<"h", "e", "l", "l", "o", " ", "j", "a", "r", "v", "i", "s">>,
      <<"j", "a", "r", "v", "i", "s">>,
      <<"w", "a", "k", "e", " ", "u", "p">>,
      <<"s", "y", "s", "t", "e", "m">>,
      <<"a", "c", "t", "i", "v", "a", "t", "e">> }

Activating(s) == \E p \in ActivationSet : includes(toLowerCase(trim(s)), p)

C24_ConnectIffPhrase ==
    [][(out' \cap {"result", "wakeConnect"} # {})
          => /\ Activating(heard') <=> "wakeConnect" \in out'
             /\ ~Activating(heard') => UNCHANGED lifeVars]_vars

\* the listener has heard "ecosystem" and called connect()
C24_Witness ==
    /\ heard = <<"e", "c", "o", "s", "y", "s", "t", "e", "m">>
    /\ "wakeConnect" \in out
    /\ conn["grace"] > 0

\* C25: nextStartTime never decreases except at an interruption: a step
\* that lowers it handles an interruption marker.
C25_OnlyInterruptionLowers ==
    [][nextStartTime' < nextStartTime => "interrupted" \in out']_vars

\* C25, amended: a step that lowers nextStartTime handles an interruption
\* marker or is the step of connect() that creates the audio contexts.
C25_LoweredByInterruptionOrConnect ==
    [][nextStartTime' < nextStartTime
          => ("interrupted" \in out' \/ ConnectGraceEnd)]_vars

\* a reconnect has reset the cursor of segments scheduled before it
C25_Witness ==
    /\ svc.connectionState = "CONNECTING"
    /\ nextStartTime = 0
    /\ played # <<>>

\* C26: a tool call whose name has no local handler is ignored: no status
\* update is emitted for it and no tool response with its id is sent.
Handled == {"toggleTheme", "scanSystem", "openApp", "controlFlashlight",
            "sendNotification"}

C26_UnknownIgnored ==
    \A k \in DOMAIN calls :
        calls[k].name \notin Handled =>
            \A r \in DOMAIN responses : responses[r].id # calls[k].id

\* C27: the tool responses of one message are sent in the relative order in
\* which their calls are listed, whether a handler is synchronous or starts
\* asynchronous work: of two responses, the one sent first answers the call
\* listed first.
C27_ResponsesInCallOrder ==
    \A i, j \in DOMAIN responses :
        i < j => \E a, b \in DOMAIN calls :
                    /\ a < b
                    /\ calls[a].id = responses[i].id
                    /\ calls[b].id = responses[j].id

\* a flashlight ON call, whose camera request is still pending, was listed
\* before a toggleTheme call, and both have been answered
C27_Witness ==
    /\ Len(calls) = 2 /\ Len(responses) = 2
    /\ calls[1].name = "controlFlashlight" /\ calls[1].arg = "ON"
    /\ calls[2].name = "toggleTheme"
    /\ cam > 0

\* C28: at most one camera stream is held (a repeated ON leaves no earlier
\* stream live and unreferenced), and once the last flashlight call the
\* service handled is an OFF, no camera stream is held, also after the
\* pending camera request of an earlier ON has settled.
FlashCalls == SelectSeq(calls, LAMBDA fc : fc.name = "controlFlashlight")

C28_FlashlightReleases ==
    /\ "cam" \notin leaked
    /\ (FlashCalls # <<>> /\ FlashCalls[Len(FlashCalls)].arg = "OFF")
          => svc.videoStream = "null"

\* C29: when a controlFlashlight ON call fails to acquire the hardware, the
\* failure is logged and the tool response sent for that call does not
\* report success.
C29_FailureReported ==
    "flashUnavailable" \in out =>
        \A k \in DOMAIN calls :
            (calls[k].name = "controlFlashlight" /\ calls[k].arg = "ON") =>
                \A r \in DOMAIN responses :
                    responses[r].id = calls[k].id => responses[r].status # "success"

\* C30: a frame whose send fails is processed like any other: the
\* connectionState is unchanged, nothing but the frame's own events is
\* emitted (no log, no error), the amplitude sample is published, the VAD is
\* updated from the frame, and the processor stays attached for the frames
\* that follow.
C30_SendFailureSwallowed ==
    [][("sendFailed" \in out')
          => /\ svc'.connectionState = svc.connectionState
             /\ out' \subseteq {"frame", "sendFailed", "amplitude", "speakStart"}
             /\ "amplitude" \in out'
             /\ processors' = processors
             /\ IF quietSeen'
                THEN deadline' = deadline /\ svc'.isSpeaking = svc.isSpeaking
                ELSE /\ deadline' = wall + Debounce
                     /\ svc'.isSpeaking
                     /\ wall \in loudAt'
                     /\ "speakStart" \in out' <=> ~svc.isSpeaking]_vars

\* the send of an above-threshold frame failed and the speaking period began
C30_Witness ==
    /\ "sendFailed" \in out /\ "speakStart" \in out
    /\ svc.isSpeaking
    /\ deadline = wall + Debounce

\* C31: within one capture callback the frame is dispatched for sending
\* before the VAD is updated, and the VAD update does not depend on the
\* send: whatever becomes of the send, 'speaking started' and the arming of
\* the debounce timeout come after the dispatch, in the same callback, and
\* are what the frame's loudness alone asks for.
Position(steps, e) == CHOOSE i \in DOMAIN steps : steps[i] = e

C31_VadAfterDispatch ==
    \A loud \in BOOLEAN, sent \in Sends :
        LET steps == frameSteps(loud, sent, svc.isSpeaking)
            has(e) == \E i \in DOMAIN steps : steps[i] = e
        IN /\ has(sendEvent(sent))
           /\ has("setTimeout") <=> loud
           /\ has("speakStart") <=> (loud /\ ~svc.isSpeaking)
           /\ \A e \in {"speakStart", "setTimeout"} :
                 has(e) => Position(steps, sendEvent(sent)) < Position(steps, e)

\* the send of an above-threshold frame is still pending, and the speaking
\* period has begun with its timeout armed
C31_Witness ==
    /\ "sendPending" \in out /\ "speakStart" \in out
    /\ svc.isSpeaking
    /\ deadline = wall + Debounce

\* C32: handling onOpen sets connectionState to CONNECTED and starts the
\* capture pipeline: when the handler returns, a capture processor is
\* attached to the input context over a live microphone stream.
C32_OpenStartsCapture ==
    [][(sess'["open"] > sess["open"])
          => /\ svc'.connectionState = "CONNECTED"
             /\ "field" \in processors'
             /\ svc'.stream = "live"]_vars

\* C33: every declared tool call of a message gets exactly one response,
\* which carries the call's id and name, and no response carries an id
\* that was not received.
Declared == {"toggleTheme", "scanSystem", "searchDatabase", "openApp",
             "controlFlashlight", "sendNotification"}

C33_OneResponsePerCall ==
    /\ \A k \in DOMAIN calls :
          calls[k].name \in Declared =>
              /\ Cardinality({r \in DOMAIN responses :
                                 responses[r].id = calls[k].id}) = 1
              /\ \A r \in DOMAIN responses :
                    responses[r].id = calls[k].id => responses[r].name = calls[k].name
    /\ \A r \in DOMAIN responses :
          \E k \in DOMAIN calls : calls[k].id = responses[r].id

\* a message listed searchDatabase with id "b" after another call, and both
\* were answered
C33_Witness ==
    /\ "tool" \in out
    /\ Len(calls) = 2 /\ Len(responses) = 2
    /\ calls[2].name = "searchDatabase" /\ calls[2].id = "b"
    /\ calls[1].name = "openApp"

\* C34: no segment of a message that arrived before an interruption is
\* started, or left playing, after that interruption has been handled.
C34_InterruptionCutsOff == \A s \in sources : ~s.stale

C36_LeavesConnecting ==
    (svc.connectionState = "CONNECTING")
        ~> (svc.connectionState \in {"CONNECTED", "ERROR", "DISCONNECTED"})

\* C37: isSpeaking is true exactly when one debounce timeout is pending, and
\* at most one is pending at any time, in every connection state; so while
\* the user counts as speaking the timeout that reports "speaking stopped"
\* is armed.
C37_SpeakingIffOneTimer ==
    /\ silenceTimer <= 1
    /\ svc.isSpeaking <=> silenceTimer = 1

\* the service was disconnected while the user was speaking: no frame
\* arrives any more and the timeout is still pending
C37_Witness ==
    /\ svc.isSpeaking
    /\ silenceTimer = 1
    /\ svc.connectionState = "DISCONNECTED"
    /\ processors = {}

\* C38: after every step the state the presentation layer received last
\* equals the service's connectionState.
C38_ShownIsState == svc.shown = svc.connectionState

\* the state has changed and the presentation layer shows the new value
C38_Witness ==
    /\ svc.connectionState = "ERROR"
    /\ svc.shown = "ERROR"
    /\ "failureLog" \in out

====
